---- MODULE Spec2Model ----
(***************************************************************************)
(* The realtime stream client of the dashboard (WebSocketProvider): one    *)
(* provider instance, the browser sockets it creates, its two kinds of     *)
(* timers, and the bounded buffers its message dispatch fills.             *)
(***************************************************************************)
EXTENDS Integers, Sequences, FiniteSets, TLC

\* ------------------------------------------------------------------ bounds
\* Sockets one provider instance may create in a run of the live feed.
MaxSockets == 3
\* Sockets one provider instance may create in a run against a server that is down.
MaxRetrySockets == 13
\* Runs of the provider's effect (React StrictMode mounts, cleans up, mounts).
MaxMounts == 2
\* Inbound frames of a run of the live feed.
MaxMsgs == 2
\* Frames a flooding feed sends beyond the capacity of the buffer it fills.
FloodExtra == 55

\* ------------------------------------------------------- program constants
MAX_SIGNALS == 100
RECONNECT_INTERVAL == 3000
MAX_RECONNECT_ATTEMPTS == 10
MAX_DELAY == 30000
MAX_TRANSFERS == 50
MAX_CHANNEL_MESSAGES == 200
MAX_PRICE_POINTS == 500
HEARTBEAT_INTERVAL == 30000

\* ------------------------------------------------------------------- state
VARIABLES
  mounted,            \* the provider's effect is active (between run and cleanup)
  mounts,             \* runs of the effect so far
  readyState,         \* readyState of every socket created, in creation order
  wsRef,              \* wsRef.current: index of a socket, 0 for null
  reconnectAttempts,  \* reconnectAttempts.current
  timeouts,           \* every setTimeout made: [delay, state]
  reconnectTimeout,   \* reconnectTimeout.current: index into timeouts, 0 for null
  intervals,          \* every setInterval made: [period, state]
  pingInterval,       \* pingInterval.current: index into intervals, 0 for null
  isConnected,
  signals, marketUpdates, sentiment, trending,
  trackedPrices, trackedTransfers, priceHistory, channelMessages,
  written,            \* the command the last step wrote to a socket: [sock, cmd]
  uncaught,           \* an exception has escaped a handler into its caller
  caught,             \* the last step ran a catch block (which logs)
  invalidated,        \* query keys the last step invalidated in the query cache
  feed,               \* what the server sends in this run
  env,                \* process.env and window.location of the page
  dropped,            \* a subscribe or unsubscribe call was dropped (see Recorded)
  delivered,          \* inbound frames dispatched so far
  pushed,             \* per buffer: insertions since it was last emptied
  closeStreak,        \* close events since the last open event
  streakBase,         \* Len(timeouts) at the last open event
  gaveUp,             \* a close event found the retry budget exhausted
  lastEvent           \* the last operation or event: [op, frame]

conn == <<mounted, mounts, readyState, wsRef, reconnectAttempts, timeouts,
          reconnectTimeout, intervals, pingInterval, isConnected>>
buffers == <<signals, marketUpdates, sentiment, trending, trackedPrices,
             trackedTransfers, priceHistory, channelMessages>>
effects == <<written, uncaught, caught, invalidated>>
ghost == <<feed, env, dropped, delivered, pushed, closeStreak, streakBase, gaveUp, lastEvent>>
vars == <<conn, buffers, effects, ghost>>

\* ----------------------------------------------------------------- values
None == <<>>
Some(v) == <<v>>
IsSome(o) == o # <<>>
Get(o) == o[1]

Min(a, b) == IF a < b THEN a ELSE b
\* Array.prototype.slice(0, n)
SliceHead(s, n) == SubSeq(s, 1, Min(n, Len(s)))
\* Array.prototype.slice(-n)
SliceTail(s, n) == IF Len(s) <= n THEN s ELSE SubSeq(s, Len(s) - n + 1, Len(s))

\* the symbol as the key, in the case the server sent it
toUpperCase_AsSent(s) == s

\* String.prototype.toUpperCase on the symbols the feeds use
toUpperCase(s) ==
  CASE s = "btc" -> "BTC"
    [] s = "Btc" -> "BTC"
    [] s = "eth" -> "ETH"
    [] OTHER -> s

\* Keys of the price map and of the price-history map; an absent key is None in
\* the price map and the empty sequence in the history map.
Keys == {"BTC", "ETH"}
\* The JavaScript value undefined, where the code stores a missing payload.
Undefined == [undefined |-> TRUE]
Item(data) == IF IsSome(data) THEN Get(data) ELSE Undefined

\* ----------------------------------------------------------------- frames
\* A frame is the text of one inbound WebSocket message: malformed text, or the
\* JSON text of a value: null, a number, or an object with a type and perhaps data.
\* The type of a value without one (message.type is undefined) is "".
JNull == [kind |-> "null", type |-> "", data |-> None]
JNumber == [kind |-> "number", type |-> "", data |-> None]
JObject(type, data) == [kind |-> "object", type |-> type, data |-> data]
Garbage == [wellFormed |-> FALSE, value |-> JNull]
Text(v) == [wellFormed |-> TRUE, value |-> v]
NoFrame == [wellFormed |-> FALSE, value |-> [kind |-> "none", type |-> "", data |-> None]]

\* JSON.parse: throws on malformed text, else yields the value.
JSONParse(frame) ==
  IF frame.wellFormed THEN [threw |-> FALSE, value |-> frame.value]
  ELSE [threw |-> TRUE, value |-> JNull]

HandledTypes == {"connected", "new_signal", "MARKET_UPDATE", "sentiment_update",
                 "trending_update", "tracked_price_update", "tracked_transfer",
                 "notification", "channel_message", "monitoring_status", "pong",
                 "error"}
\* WebSocketMessageType members without a case in the dispatch
DeclaredUnhandled == {"subscribed", "unsubscribed"}
FloodTypes == {"new_signal", "MARKET_UPDATE", "tracked_transfer",
               "channel_message", "tracked_price_update"}

Token(sym, price) == [symbol |-> sym, price_usd |-> price]
PriceData(tokens) == Some([tokens |-> Some(tokens)])

\* The n-th frame of a flood of one type: its payload carries n.
FloodFrame(type, n) ==
  IF type = "tracked_price_update"
  THEN Text(JObject(type, PriceData(<<Token("BTC", Some(n))>>)))
  ELSE Text(JObject(type, Some([id |-> n])))

\* Prices, symbols and batches of the tracked_price_update frames of a mixed feed.
Prices == {Some(65000), Some(66000), None}
Symbols == {"BTC", "btc", "ETH"}
Batches ==
  {<<Token(sym, price)>> : sym \in Symbols, price \in Prices}
    \cup {<<>>,
          <<Token("BTC", Some(65000)), Token("ETH", Some(66000))>>,
          <<Token("BTC", Some(65000)), Token("btc", Some(66000))>>,
          <<Token("BTC", None), Token("ETH", Some(65000))>>}
Sentiments == {[overall |-> "BULLISH", score |-> 1], [overall |-> "BEARISH", score |-> 2]}
Trendings == {[top_tokens |-> <<>>], [top_tokens |-> <<"BTC">>]}

\* The frames of a mixed feed: every handled type, with payloads present and absent.
MixedFrames(n) ==
  {Text(JObject("tracked_price_update", PriceData(b))) : b \in Batches}
    \cup {Text(JObject("sentiment_update", Some(d))) : d \in Sentiments}
    \cup {Text(JObject("trending_update", Some(d))) : d \in Trendings}
    \cup {Text(JObject(type, Some([id |-> n]))) :
            type \in {"new_signal", "MARKET_UPDATE", "tracked_transfer", "channel_message"}}
    \cup {Text(JObject(type, None)) :
            type \in {"tracked_price_update", "tracked_transfer", "channel_message",
                      "notification", "monitoring_status", "pong", "error", "connected"}}
    \cup {Text(JObject("tracked_price_update", Some([tokens |-> None])))}

\* The frames the server may send as the n-th frame of the run.
Frames(f, n) ==
  IF f \in FloodTypes THEN {FloodFrame(f, n)}
  ELSE IF f = "mixed" THEN MixedFrames(n)
  ELSE {Garbage, Text(JNull), Text(JNumber),
        Text(JObject("bogus", Some([id |-> n]))),
        Text(JObject("subscribed", None)),
        Text(JObject("unsubscribed", None)),
        Text(JObject("new_signal", Some([id |-> n]))),
        Text(JObject("pong", None))}

Capacity(type) ==
  CASE type = "new_signal" -> MAX_SIGNALS
    [] type = "MARKET_UPDATE" -> MAX_SIGNALS
    [] type = "tracked_transfer" -> MAX_TRANSFERS
    [] type = "channel_message" -> MAX_CHANNEL_MESSAGES
    [] type = "tracked_price_update" -> MAX_PRICE_POINTS
    [] OTHER -> 0

FrameLimit(f) == IF f \in FloodTypes THEN Capacity(f) + FloodExtra ELSE MaxMsgs
SocketLimit(f) == IF f \in {"down", "flaky"} THEN MaxRetrySockets ELSE MaxSockets

\* ------------------------------------------------------------------- URLs
\* A URL is [scheme, host, path, slash, query]: path is the sequence of its segments,
\* slash says that it ends with "/", query is the token appended, if any. A relative
\* URL has scheme "" and host ""; the empty string is the relative URL with no path.
Url(scheme, host, path, slash) ==
  [scheme |-> scheme, host |-> host, path |-> path, slash |-> slash, query |-> None]
EmptyUrl == Url("", "", <<>>, FALSE)
StreamPath == <<"api", "v1", "live", "stream">>
ApiSuffix == <<"api", "v1">>

\* baseUrl.endsWith('/api/v1')
EndsWithApi(path) ==
  Len(path) >= 2 /\ SubSeq(path, Len(path) - 1, Len(path)) = ApiSuffix

\* getWebSocketUrl() in the browser, for the environment e
getWebSocketUrl(e) ==
  IF IsSome(e.wsUrl) THEN Get(e.wsUrl)
  ELSE IF e.apiUrl.scheme \in {"http", "https"}
  THEN LET wsProtocol == IF e.apiUrl.scheme = "https" THEN "wss" ELSE "ws"
           \* the trailing slash is removed, then a final /api/v1
           path == IF EndsWithApi(e.apiUrl.path)
                   THEN SubSeq(e.apiUrl.path, 1, Len(e.apiUrl.path) - 2)
                   ELSE e.apiUrl.path
       IN Url(wsProtocol, e.apiUrl.host, path \o StreamPath, FALSE)
  ELSE IF e.hostname \in {"localhost", "127.0.0.1"}
  THEN Url("ws", "localhost:8000", StreamPath, FALSE)
  ELSE Url(IF e.protocol = "https:" THEN "wss" ELSE "ws", e.hostname, StreamPath, FALSE)

\* the URL connect() hands to the WebSocket constructor
wsUrl(e) == [getWebSocketUrl(e) EXCEPT !.query = e.token]

\* The environments of a page: NEXT_PUBLIC_WS_URL, NEXT_PUBLIC_API_URL, the stored
\* auth token, and window.location.
ExplicitUrls == {None} \cup {Some(Url(sch, "ws.example.com", StreamPath, FALSE)) :
                              sch \in {"ws", "wss"}}
ApiUrls ==
  {EmptyUrl, Url("", "", ApiSuffix, FALSE)}
    \cup {Url(sch, "api.example.com", path, slash) :
            sch \in {"http", "https"}, path \in {<<>>, ApiSuffix}, slash \in BOOLEAN}
Hostnames == {"localhost", "127.0.0.1", "app.example.com"}
Protocols == {"http:", "https:"}
Envs == [wsUrl : ExplicitUrls, apiUrl : ApiUrls, token : {None, Some("jwt")},
         hostname : Hostnames, protocol : Protocols]
DefaultEnv == [wsUrl |-> None, apiUrl |-> Url("", "", ApiSuffix, FALSE), token |-> None,
               hostname |-> "localhost", protocol |-> "http:"]
EnvsOf(f) == IF f = "url" THEN Envs ELSE {DefaultEnv}

\* The sessions that record whether a subscribe or unsubscribe call was dropped.
Recorded(f) == f = "commands"

Event(op, frame) == [op |-> op, frame |-> frame]

Sockets == 1..Len(readyState)
Live(s) == readyState[s] \in {"CONNECTING", "OPEN"}
CurrentOpen == wsRef # 0 /\ readyState[wsRef] = "OPEN"

\* -------------------------------------------------------------------- init
InitState(f) ==
  /\ mounted = FALSE /\ mounts = 0
  /\ readyState = <<>> /\ wsRef = 0
  /\ reconnectAttempts = 0
  /\ timeouts = <<>> /\ reconnectTimeout = 0
  /\ intervals = <<>> /\ pingInterval = 0
  /\ isConnected = FALSE
  /\ signals = <<>> /\ marketUpdates = <<>>
  /\ sentiment = None /\ trending = None
  /\ trackedPrices = [k \in Keys |-> None] /\ trackedTransfers = <<>>
  /\ priceHistory = [k \in Keys |-> <<>>] /\ channelMessages = <<>>
  /\ written = None /\ uncaught = FALSE /\ caught = FALSE /\ invalidated = {}
  /\ feed = f /\ env \in EnvsOf(f) /\ delivered = 0 /\ dropped = FALSE
  /\ pushed = [b \in FloodTypes |-> 0]
  /\ closeStreak = 0 /\ streakBase = 0 /\ gaveUp = FALSE
  /\ lastEvent = Event("init", NoFrame)

Init == InitState("live")

\* -------------------------------------------------------------- operations
\* sendCommand without the readyState test: send() on whatever wsRef holds.
sendCommand_NoGuard(cmd) ==
  /\ written' = IF wsRef # 0 THEN Some([sock |-> wsRef, cmd |-> cmd]) ELSE None
  /\ uncaught' = (uncaught \/ wsRef = 0)

\* sendCommand: written to the current socket only if it is open.
sendCommand(cmd) ==
  /\ written' = IF CurrentOpen THEN Some([sock |-> wsRef, cmd |-> cmd]) ELSE None
  /\ uncaught' = uncaught

Command(action, type, value) == [action |-> action, type |-> type, value |-> value]
PingCommand == Command("ping", "", "")
SubKinds == {"token", "channel"}
SubValues == {"BTC"}

subscribe(type, value) ==
  /\ sendCommand(Command("subscribe", type, value))
  /\ lastEvent' = Event("subscribe", NoFrame)
  /\ caught' = FALSE /\ invalidated' = {}
  /\ dropped' = (dropped \/ (Recorded(feed) /\ ~CurrentOpen))
  /\ UNCHANGED <<conn, buffers>>
  /\ UNCHANGED <<feed, env, delivered, pushed, closeStreak, streakBase, gaveUp>>

unsubscribe(type, value) ==
  /\ sendCommand(Command("unsubscribe", type, value))
  /\ lastEvent' = Event("unsubscribe", NoFrame)
  /\ caught' = FALSE /\ invalidated' = {}
  /\ dropped' = (dropped \/ (Recorded(feed) /\ ~CurrentOpen))
  /\ UNCHANGED <<conn, buffers>>
  /\ UNCHANGED <<feed, env, delivered, pushed, closeStreak, streakBase, gaveUp>>

\* a clear that resets every buffer and snapshot of the provider
clearSignals_Everything ==
  /\ signals' = <<>>
  /\ marketUpdates' = <<>>
  /\ channelMessages' = <<>>
  /\ trackedTransfers' = <<>>
  /\ trackedPrices' = [k \in Keys |-> None]
  /\ priceHistory' = [k \in Keys |-> <<>>]
  /\ sentiment' = None
  /\ trending' = None
  /\ pushed' = [t \in FloodTypes |-> 0]
  /\ lastEvent' = Event("clear", NoFrame)
  /\ written' = None /\ caught' = FALSE /\ invalidated' = {}
  /\ UNCHANGED <<conn, uncaught>>
  /\ UNCHANGED <<feed, env, dropped, delivered, closeStreak, streakBase, gaveUp>>

clearSignals ==
  /\ signals' = <<>>
  /\ marketUpdates' = <<>>
  /\ channelMessages' = <<>>
  /\ pushed' = [pushed EXCEPT !["new_signal"] = 0, !["MARKET_UPDATE"] = 0,
                              !["channel_message"] = 0]
  /\ lastEvent' = Event("clear", NoFrame)
  /\ written' = None /\ caught' = FALSE /\ invalidated' = {}
  /\ UNCHANGED <<conn, uncaught, sentiment, trending, trackedPrices,
                 trackedTransfers, priceHistory>>
  /\ UNCHANGED <<feed, env, dropped, delivered, closeStreak, streakBase, gaveUp>>

\* prepend without the slice
prepend_NoCap(item, prev, cap) == <<item>> \o prev
\* [...prev, item].slice(0, cap): the cap drops the newest entry
prepend_KeepOldest(item, prev, cap) == SliceHead(prev \o <<item>>, cap)

\* [item, ...prev].slice(0, cap)
prepend(item, prev, cap) == SliceHead(<<item>> \o prev, cap)

\* arr.push(point) cut with slice(0, 500): the cut drops the newest point
pushPoint_DropNewest(arr, point) == SliceHead(Append(arr, point), MAX_PRICE_POINTS)

\* the history of a symbol keeps its latest point only
pushPoint_Latest(arr, point) == <<point>>

\* arr.push(point); arr.length > 500 ? arr.slice(-500) : arr
pushPoint(arr, point) ==
  LET a == Append(arr, point)
  IN IF Len(a) > MAX_PRICE_POINTS THEN SliceTail(a, MAX_PRICE_POINTS) ELSE a

\* a loop of setTrackedPrices that passes over the tokens without a price
RECURSIVE upsertTokens_SkipsUnpriced(_, _)
upsertTokens_SkipsUnpriced(prev, tokens) ==
  IF tokens = <<>> THEN prev
  ELSE upsertTokens_SkipsUnpriced(
         IF IsSome(Head(tokens).price_usd)
         THEN [prev EXCEPT ![toUpperCase(Head(tokens).symbol)] = Some(Head(tokens))]
         ELSE prev,
         Tail(tokens))

\* the loop of setTrackedPrices over the batch
RECURSIVE upsertTokens(_, _)
upsertTokens(prev, tokens) ==
  IF tokens = <<>> THEN prev
  ELSE upsertTokens([prev EXCEPT ![toUpperCase(Head(tokens).symbol)] = Some(Head(tokens))],
                    Tail(tokens))

\* a loop of setPriceHistory without the test of the price: null is charted as 0
RECURSIVE appendHistory_NullAsZero(_, _, _)
appendHistory_NullAsZero(prev, tokens, t) ==
  IF tokens = <<>> THEN prev
  ELSE LET token == Head(tokens)
           sym == toUpperCase(token.symbol)
           p == IF IsSome(token.price_usd) THEN Get(token.price_usd) ELSE 0
       IN appendHistory_NullAsZero(
            [prev EXCEPT ![sym] = pushPoint(prev[sym], [t |-> t, p |-> p])],
            Tail(tokens), t)

\* the loop of setPriceHistory over the batch; t is the time of receipt
RECURSIVE appendHistory(_, _, _)
appendHistory(prev, tokens, t) ==
  IF tokens = <<>> THEN prev
  ELSE LET token == Head(tokens)
           sym == toUpperCase(token.symbol)
           next == IF IsSome(token.price_usd)
                   THEN [prev EXCEPT ![sym] =
                           pushPoint(prev[sym], [t |-> t, p |-> Get(token.price_usd)])]
                   ELSE prev
       IN appendHistory(next, Tail(tokens), t)

RECURSIVE pricedCount(_)
pricedCount(tokens) ==
  IF tokens = <<>> THEN 0
  ELSE (IF IsSome(Head(tokens).price_usd) THEN 1 ELSE 0) + pricedCount(Tail(tokens))

\* priceMsg.data?.tokens
TokensOf(message) ==
  IF IsSome(message.data) /\ IsSome(Get(message.data).tokens)
  THEN Get(message.data).tokens ELSE None

\* the cases of the switch of handleMessage, entered for `type`
switchOn(type, message) ==
  LET tokens == IF type = "tracked_price_update" THEN TokensOf(message) ELSE None
      hasTokens == IsSome(tokens)
  IN
  /\ signals' = IF type = "new_signal"
                THEN prepend(Item(message.data), signals, MAX_SIGNALS) ELSE signals
  /\ marketUpdates' = IF type = "MARKET_UPDATE"
                      THEN prepend(message, marketUpdates, MAX_SIGNALS)
                      ELSE marketUpdates
  /\ sentiment' = IF type = "sentiment_update" THEN message.data ELSE sentiment
  /\ trending' = IF type = "trending_update" THEN message.data ELSE trending
  /\ trackedPrices' = IF hasTokens THEN upsertTokens(trackedPrices, Get(tokens))
                      ELSE trackedPrices
  /\ priceHistory' = IF hasTokens
                     THEN appendHistory(priceHistory, Get(tokens), delivered + 1)
                     ELSE priceHistory
  /\ trackedTransfers' = IF type = "tracked_transfer" /\ IsSome(message.data)
                         THEN prepend(Get(message.data), trackedTransfers, MAX_TRANSFERS)
                         ELSE trackedTransfers
  /\ channelMessages' = IF type = "channel_message" /\ IsSome(message.data)
                        THEN prepend(Get(message.data), channelMessages,
                                     MAX_CHANNEL_MESSAGES)
                        ELSE channelMessages
  /\ invalidated' =
       CASE type = "new_signal" -> {"signals"}
         [] type = "notification" -> {"notifications"}
         [] type = "monitoring_status" -> {"monitoringStatus", "userTelegramStatus"}
         [] OTHER -> {}
  /\ pushed' =
       CASE type = "new_signal" -> [pushed EXCEPT ![type] = @ + 1]
         [] type = "MARKET_UPDATE" -> [pushed EXCEPT ![type] = @ + 1]
         [] type = "tracked_transfer" /\ IsSome(message.data) ->
              [pushed EXCEPT ![type] = @ + 1]
         [] type = "channel_message" /\ IsSome(message.data) ->
              [pushed EXCEPT ![type] = @ + 1]
         [] hasTokens -> [pushed EXCEPT ![type] = @ + pricedCount(Get(tokens))]
         [] OTHER -> pushed
  /\ caught' = FALSE
  /\ UNCHANGED uncaught

\* a switch that enters the new_signal case for a notification
dispatch_NotificationAsSignal(message) ==
  switchOn(IF message.type = "notification" THEN "new_signal" ELSE message.type, message)

\* a switch that enters the trending_update case for a sentiment_update
dispatch_SentimentAsTrending(message) ==
  switchOn(IF message.type = "sentiment_update" THEN "trending_update" ELSE message.type,
           message)

\* a switch whose unmatched types fall into the new_signal case
dispatch_DefaultCase(message) ==
  switchOn(IF message.type \in HandledTypes THEN message.type ELSE "new_signal", message)

\* switch (message.type)
dispatch(message) == switchOn(message.type, message)

\* handleMessage without the try/catch: a failed parse escapes to the caller
handleMessage_NoCatch(frame) ==
  LET parsed == JSONParse(frame)
  IN IF parsed.threw \/ parsed.value.kind = "null"
     THEN /\ uncaught' = TRUE
          /\ caught' = FALSE
          /\ invalidated' = {}
          /\ UNCHANGED <<buffers, pushed>>
     ELSE dispatch(parsed.value)

\* handleMessage: JSON.parse and the switch inside one try, the catch logs.
\* Reading the type of null throws a TypeError inside the try.
handleMessage(frame) ==
  LET parsed == JSONParse(frame)
  IN IF parsed.threw \/ parsed.value.kind = "null"
     THEN /\ caught' = TRUE
          /\ invalidated' = {}
          /\ UNCHANGED <<buffers, pushed, uncaught>>
     ELSE dispatch(parsed.value)

\* connect: nothing if the current socket is open; else a new socket with the
\* four handlers, or a logged failure when the constructor throws.
\* a connect() whose failure comes after the socket is stored and wired
connect_ThrowsAfterWiring ==
  IF CurrentOpen
  THEN /\ caught' = FALSE
       /\ UNCHANGED <<readyState, wsRef>>
  ELSE /\ Len(readyState) < SocketLimit(feed)
       /\ readyState' = Append(readyState, "CONNECTING")
       /\ wsRef' = Len(readyState) + 1
       /\ caught' \in BOOLEAN

\* connect() without the test of the current socket
connect_NoGuard ==
  \/ /\ Len(readyState) < SocketLimit(feed)
     /\ readyState' = Append(readyState, "CONNECTING")
     /\ wsRef' = Len(readyState) + 1
     /\ caught' = FALSE
  \/ /\ caught' = TRUE
     /\ UNCHANGED <<readyState, wsRef>>

connect ==
  IF CurrentOpen
  THEN /\ caught' = FALSE
       /\ UNCHANGED <<readyState, wsRef>>
  ELSE \/ /\ Len(readyState) < SocketLimit(feed)
          /\ readyState' = Append(readyState, "CONNECTING")
          /\ wsRef' = Len(readyState) + 1
          /\ caught' = FALSE
       \/ /\ caught' = TRUE
          /\ UNCHANGED <<readyState, wsRef>>

\* The effect of the provider runs: connect().
Mount ==
  /\ ~mounted /\ mounts < MaxMounts
  /\ mounted' = TRUE /\ mounts' = mounts + 1
  /\ connect
  /\ lastEvent' = Event("mount", NoFrame)
  /\ UNCHANGED <<reconnectAttempts, timeouts, reconnectTimeout, intervals,
                 pingInterval, isConnected, buffers, uncaught>>
  /\ written' = None /\ invalidated' = {}
  /\ UNCHANGED <<feed, env, dropped, delivered, pushed, closeStreak, streakBase, gaveUp>>

clearTimer(ts, h) ==
  IF h # 0 /\ ts[h].state = "pending" THEN [ts EXCEPT ![h].state = "cleared"] ELSE ts
clearIntervalOf(is, h) ==
  IF h # 0 THEN [is EXCEPT ![h].state = "cleared"] ELSE is
\* WebSocket.close(): a connecting or open socket starts closing.
closeSocket(rs, s) ==
  IF s # 0 /\ rs[s] \in {"CONNECTING", "OPEN"} THEN [rs EXCEPT ![s] = "CLOSING"] ELSE rs

\* The cleanup of the effect.
Unmount ==
  /\ mounted
  /\ mounted' = FALSE
  /\ timeouts' = clearTimer(timeouts, reconnectTimeout)
  /\ intervals' = clearIntervalOf(intervals, pingInterval)
  /\ readyState' = closeSocket(readyState, wsRef)
  /\ lastEvent' = Event("unmount", NoFrame)
  /\ written' = None /\ caught' = FALSE /\ invalidated' = {}
  /\ UNCHANGED <<mounts, wsRef, reconnectAttempts, reconnectTimeout, pingInterval,
                 isConnected, buffers, uncaught>>
  /\ UNCHANGED <<feed, env, dropped, delivered, pushed, closeStreak, streakBase, gaveUp>>

\* an onopen that sends a subscription again once the socket is open
SocketOpen_Resubscribes(s) ==
  /\ readyState[s] = "CONNECTING"
  /\ readyState' = [readyState EXCEPT ![s] = "OPEN"]
  /\ isConnected' = TRUE
  /\ reconnectAttempts' = 0
  /\ intervals' = Append(intervals, [period |-> HEARTBEAT_INTERVAL, state |-> "active"])
  /\ pingInterval' = Len(intervals) + 1
  /\ closeStreak' = 0 /\ streakBase' = Len(timeouts)
  /\ lastEvent' = Event("open", NoFrame)
  /\ written' = Some([sock |-> s, cmd |-> [action |-> "subscribe", type |-> "token",
                                           value |-> "BTC"]])
  /\ caught' = FALSE /\ invalidated' = {}
  /\ UNCHANGED <<mounted, mounts, wsRef, timeouts, reconnectTimeout, buffers, uncaught>>
  /\ UNCHANGED <<feed, env, dropped, delivered, pushed, gaveUp>>

\* an onopen that leaves the retry counter as it found it
SocketOpen_KeepsCounter(s) ==
  /\ readyState[s] = "CONNECTING"
  /\ readyState' = [readyState EXCEPT ![s] = "OPEN"]
  /\ isConnected' = TRUE
  /\ intervals' = Append(intervals, [period |-> HEARTBEAT_INTERVAL, state |-> "active"])
  /\ pingInterval' = Len(intervals) + 1
  /\ closeStreak' = 0 /\ streakBase' = Len(timeouts)
  /\ lastEvent' = Event("open", NoFrame)
  /\ written' = None /\ caught' = FALSE /\ invalidated' = {}
  /\ UNCHANGED <<mounted, mounts, wsRef, reconnectAttempts, timeouts, reconnectTimeout,
                 buffers, uncaught>>
  /\ UNCHANGED <<feed, env, dropped, delivered, pushed, gaveUp>>

\* The open event of socket s: its onopen handler.
SocketOpen(s) ==
  /\ readyState[s] = "CONNECTING"
  /\ readyState' = [readyState EXCEPT ![s] = "OPEN"]
  /\ isConnected' = TRUE
  /\ reconnectAttempts' = 0
  /\ intervals' = Append(intervals, [period |-> HEARTBEAT_INTERVAL, state |-> "active"])
  /\ pingInterval' = Len(intervals) + 1
  /\ closeStreak' = 0 /\ streakBase' = Len(timeouts)
  /\ lastEvent' = Event("open", NoFrame)
  /\ written' = None /\ caught' = FALSE /\ invalidated' = {}
  /\ UNCHANGED <<mounted, mounts, wsRef, timeouts, reconnectTimeout, buffers, uncaught>>
  /\ UNCHANGED <<feed, env, dropped, delivered, pushed, gaveUp>>

\* a backoff that counts from zero: the first reconnect is immediate
reconnectDelay_FromZero(attempt) == Min(RECONNECT_INTERVAL * (attempt - 1), MAX_DELAY)

\* the same delay for every attempt
reconnectDelay_Fixed(attempt) == RECONNECT_INTERVAL

\* an uncapped exponential backoff
reconnectDelay_Exponential(attempt) == RECONNECT_INTERVAL * (2 ^ attempt)

\* Math.min(RECONNECT_INTERVAL * attempt, 30000)
reconnectDelay(attempt) == Min(RECONNECT_INTERVAL * attempt, MAX_DELAY)

\* an onclose that schedules a reconnect whatever the retry counter is
SocketClose_NoLimit(s) ==
  /\ readyState[s] \in {"CONNECTING", "OPEN", "CLOSING"}
  /\ readyState' = [readyState EXCEPT ![s] = "CLOSED"]
  /\ isConnected' = FALSE
  /\ intervals' = clearIntervalOf(intervals, pingInterval)
  /\ reconnectAttempts' = reconnectAttempts + 1
  /\ timeouts' = Append(timeouts,
                        [delay |-> reconnectDelay(reconnectAttempts + 1),
                         state |-> "pending"])
  /\ reconnectTimeout' = Len(timeouts) + 1
  /\ closeStreak' = closeStreak + 1
  /\ lastEvent' = Event("close", NoFrame)
  /\ written' = None /\ caught' = FALSE /\ invalidated' = {}
  /\ UNCHANGED <<mounted, mounts, wsRef, pingInterval, buffers, uncaught>>
  /\ UNCHANGED <<feed, env, dropped, delivered, pushed, streakBase, gaveUp>>

\* The close event of socket s: its onclose handler.
SocketClose(s) ==
  /\ readyState[s] \in {"CONNECTING", "OPEN", "CLOSING"}
  /\ readyState' = [readyState EXCEPT ![s] = "CLOSED"]
  /\ isConnected' = FALSE
  /\ intervals' = clearIntervalOf(intervals, pingInterval)
  /\ IF reconnectAttempts < MAX_RECONNECT_ATTEMPTS
     THEN /\ reconnectAttempts' = reconnectAttempts + 1
          /\ timeouts' = Append(timeouts,
                                [delay |-> reconnectDelay(reconnectAttempts + 1),
                                 state |-> "pending"])
          /\ reconnectTimeout' = Len(timeouts) + 1
          /\ UNCHANGED gaveUp
     ELSE /\ gaveUp' = TRUE
          /\ UNCHANGED <<reconnectAttempts, timeouts, reconnectTimeout>>
  /\ closeStreak' = closeStreak + 1
  /\ lastEvent' = Event("close", NoFrame)
  /\ written' = None /\ caught' = FALSE /\ invalidated' = {}
  /\ UNCHANGED <<mounted, mounts, wsRef, pingInterval, buffers, uncaught>>
  /\ UNCHANGED <<feed, env, dropped, delivered, pushed, streakBase>>

\* an onerror that starts the session over with empty buffers
SocketError_ResetsBuffers(s) ==
  /\ readyState[s] \in {"CONNECTING", "OPEN"}
  /\ signals' = <<>> /\ marketUpdates' = <<>> /\ channelMessages' = <<>>
  /\ trackedTransfers' = <<>>
  /\ lastEvent' = Event("error", NoFrame)
  /\ written' = None /\ caught' = FALSE /\ invalidated' = {}
  /\ UNCHANGED <<conn, sentiment, trending, trackedPrices, priceHistory, uncaught>>
  /\ UNCHANGED <<feed, env, dropped, delivered, pushed, closeStreak, streakBase, gaveUp>>

\* The error event of socket s: onerror only logs.
SocketError(s) ==
  /\ readyState[s] \in {"CONNECTING", "OPEN"}
  /\ lastEvent' = Event("error", NoFrame)
  /\ written' = None /\ caught' = FALSE /\ invalidated' = {}
  /\ UNCHANGED <<conn, buffers, uncaught>>
  /\ UNCHANGED <<feed, env, dropped, delivered, pushed, closeStreak, streakBase, gaveUp>>

\* A message event of socket s: handleMessage.
SocketMessage(s, frame) ==
  /\ readyState[s] = "OPEN"
  /\ delivered < FrameLimit(feed)
  /\ frame \in Frames(feed, delivered + 1)
  /\ handleMessage(frame)
  /\ delivered' = delivered + 1
  /\ lastEvent' = Event("message", frame)
  /\ written' = None
  /\ UNCHANGED conn
  /\ UNCHANGED <<feed, env, dropped, closeStreak, streakBase, gaveUp>>

\* A reconnect timer fires: connect().
TimerFire(t) ==
  /\ timeouts[t].state = "pending"
  /\ timeouts' = [timeouts EXCEPT ![t].state = "fired"]
  /\ connect
  /\ lastEvent' = Event("timer", NoFrame)
  /\ UNCHANGED <<mounted, mounts, reconnectAttempts, reconnectTimeout, intervals,
                 pingInterval, isConnected, buffers, uncaught>>
  /\ written' = None /\ invalidated' = {}
  /\ UNCHANGED <<feed, env, dropped, delivered, pushed, closeStreak, streakBase, gaveUp>>

\* A heartbeat interval fires: sendCommand({action: 'ping'}).
PingFire(i) ==
  /\ intervals[i].state = "active"
  /\ sendCommand(PingCommand)
  /\ lastEvent' = Event("ping", NoFrame)
  /\ caught' = FALSE /\ invalidated' = {}
  /\ UNCHANGED <<conn, buffers>>
  /\ UNCHANGED <<feed, env, dropped, delivered, pushed, closeStreak, streakBase, gaveUp>>

Subscribe == \E k \in SubKinds, v \in SubValues : subscribe(k, v)
Unsubscribe == \E k \in SubKinds, v \in SubValues : unsubscribe(k, v)
Open == \E s \in Sockets : SocketOpen(s)
Close == \E s \in Sockets : SocketClose(s)
Error == \E s \in Sockets : SocketError(s)
Message == \E s \in Sockets : \E frame \in Frames(feed, delivered + 1) : SocketMessage(s, frame)
Timer == \E t \in 1..Len(timeouts) : TimerFire(t)
Ping == \E i \in 1..Len(intervals) : PingFire(i)

Next ==
  \/ Mount
  \/ Unmount
  \/ Open
  \/ Close
  \/ Error
  \/ Message
  \/ Timer
  \/ Ping
  \/ Subscribe
  \/ Unsubscribe
  \/ clearSignals

Spec == Init /\ [][Next]_vars

\* A session whose connection stays up while the server floods one buffer.
InitFlood == \E f \in FloodTypes : InitState(f)

NextFlood ==
  \/ Mount
  \/ Open
  \/ Message
  \/ clearSignals

SpecFlood == InitFlood /\ [][NextFlood]_vars

\* A session against a server that is down: every attempt ends in a close event.
InitRetry == InitState("down")

NextRetry ==
  \/ Mount
  \/ Unmount
  \/ Close
  \/ Timer

SpecRetry == InitRetry /\ [][NextRetry]_vars

\* The same session where the browser delivers what is due: a socket that cannot
\* connect gets its close event, and a pending timer fires.
SpecRetryFair == SpecRetry /\ WF_vars(Close) /\ WF_vars(Timer)

\* A session that stays mounted while the server sends every kind of message and
\* drops the connection now and then.
InitDispatch == InitState("mixed")

NextDispatch ==
  \/ Mount
  \/ Open
  \/ Close
  \/ Timer
  \/ Message
  \/ clearSignals

SpecDispatch == InitDispatch /\ [][NextDispatch]_vars

\* A session that stays mounted against a flaky server: an attempt may open or end
\* in a close event, and an open connection may drop.
InitFlaky == InitState("flaky")

NextFlaky ==
  \/ Mount
  \/ Open
  \/ Close
  \/ Timer
  \/ Ping

SpecFlaky == InitFlaky /\ [][NextFlaky]_vars

\* A session that stays mounted while the application subscribes and unsubscribes
\* at any moment, the connection opening, dropping and reconnecting meanwhile.
InitCommands == InitState("commands")

NextCommands ==
  \/ Mount
  \/ Open
  \/ Close
  \/ Timer
  \/ Subscribe
  \/ Unsubscribe
  \/ Ping

SpecCommands == InitCommands /\ [][NextCommands]_vars

\* A session of a page in any environment: what matters is the URL of its sockets.
InitUrl == InitState("url")

NextUrl ==
  \/ Mount
  \/ Open
  \/ Close
  \/ Timer

SpecUrl == InitUrl /\ [][NextUrl]_vars

\* ------------------------------------------------------------------ claims
PendingTimeouts == {t \in 1..Len(timeouts) : timeouts[t].state = "pending"}
ActiveIntervals == {i \in 1..Len(intervals) : intervals[i].state = "active"}
LiveSockets == {s \in Sockets : Live(s)}
Unmounted == mounts > 0 /\ ~mounted
Step(op) == lastEvent'.op = op
SendOps == {"subscribe", "unsubscribe", "ping"}
StreakDelays == [k \in 1..(Len(timeouts) - streakBase) |-> timeouts[streakBase + k].delay]
FloodItem(type, n) ==
  IF type = "MARKET_UPDATE" THEN JObject(type, Some([id |-> n])) ELSE [id |-> n]
NewestFirst(buf, type) ==
  (feed = type /\ pushed[type] > Capacity(type)) =>
    /\ Len(buf) = Capacity(type)
    /\ \A i \in 1..Capacity(type) : buf[i] = FloodItem(type, delivered - i + 1)

\* C1: in every reachable state every buffer is within its capacity: signals <= 100,
\* market updates <= 100, tracked transfers <= 50, channel messages <= 200 and the
\* price history of every symbol <= 500.
C1_BuffersWithinCapacity ==
  /\ Len(signals) <= 100
  /\ Len(marketUpdates) <= 100
  /\ Len(trackedTransfers) <= 50
  /\ Len(channelMessages) <= 200
  /\ \A k \in Keys : Len(priceHistory[k]) <= 500

C1_Witness ==
  /\ feed = "channel_message"
  /\ pushed["channel_message"] > 200
  /\ Len(channelMessages) = 200

\* C2: once more than N items were prepended to a buffer of capacity N with no clear
\* in between, the buffer holds exactly N entries, the N most recently inserted,
\* newest first.
C2_KeepsNewestFirst ==
  /\ NewestFirst(signals, "new_signal")
  /\ NewestFirst(marketUpdates, "MARKET_UPDATE")
  /\ NewestFirst(trackedTransfers, "tracked_transfer")
  /\ NewestFirst(channelMessages, "channel_message")

C2_Witness ==
  /\ feed = "new_signal" /\ delivered = 150 /\ pushed["new_signal"] = 150
  /\ Len(signals) = 100
  /\ signals[1] = [id |-> 150]
  /\ signals[100] = [id |-> 51]

\* C3: after K < 10 consecutive close events with no open event in between, counted
\* from a retry counter of 0, exactly K reconnects have been scheduled, with delays
\* that never decrease and never exceed 30000 ms.
C3_BackoffSchedule ==
  closeStreak < MAX_RECONNECT_ATTEMPTS =>
    /\ Len(timeouts) - streakBase = closeStreak
    /\ \A k \in DOMAIN StreakDelays : StreakDelays[k] <= 30000
    /\ \A j, k \in DOMAIN StreakDelays : j <= k => StreakDelays[j] <= StreakDelays[k]

C3_Witness ==
  /\ closeStreak = 9
  /\ Len(timeouts) = 9
  /\ timeouts[1].delay = 3000
  /\ timeouts[9].delay = 27000

\* C4: once the retry counter is at its maximum, a further close event schedules no
\* reconnect timer, and from then on the provider creates no socket (short of
\* its effect being run again).
C4_NoAttemptAfterGivingUp ==
  [][/\ (Step("close") /\ reconnectAttempts = MAX_RECONNECT_ATTEMPTS)
          => timeouts' = timeouts
     /\ (gaveUp /\ ~Step("mount")) => Len(readyState') = Len(readyState)]_vars

\* C5: at every moment at most one socket of the provider is connecting or open.
C5_AtMostOneLiveSocket == Cardinality(LiveSockets) <= 1

\* C6: after the provider unmounts no reconnect timer and no heartbeat timer is
\* pending, and no socket is created.
C6_NothingLeftAfterUnmount ==
  /\ [](Unmounted => PendingTimeouts = {} /\ ActiveIntervals = {})
  /\ [][(Unmounted /\ ~Step("mount")) => Len(readyState') = Len(readyState)]_vars

\* C7: after the provider unmounts no command is written to any socket.
C7_NoWriteAfterUnmount == Unmounted => written = None

\* C8: send, subscribe and unsubscribe, called while the current socket is absent,
\* connecting, closing or closed, do not throw, write nothing and leave the buffers,
\* the connected flag, the retry counter and the timers as they were.
C8_SendWhileNotOpen ==
  [][((\E op \in SendOps : Step(op)) /\ ~CurrentOpen) =>
       /\ written' = None
       /\ ~uncaught'
       /\ UNCHANGED <<conn, buffers>>]_vars

C8_Witness ==
  /\ lastEvent.op = "subscribe"
  /\ wsRef # 0 /\ readyState[wsRef] = "CLOSING"
  /\ written = None

\* C9: an inbound message whose type has no case in the dispatch (an unknown string,
\* or the declared 'subscribed' and 'unsubscribed') leaves the connected flag, the
\* retry counter, the timers and every buffer and snapshot as they were.
C9_UnhandledTypeChangesNothing ==
  [][(/\ Step("message")
      /\ lastEvent'.frame.wellFormed
      /\ lastEvent'.frame.value.kind = "object"
      /\ lastEvent'.frame.value.type \notin HandledTypes) =>
       /\ UNCHANGED <<conn, buffers>>
       /\ invalidated' = {}
       /\ ~uncaught']_vars

C9_Witness ==
  /\ lastEvent.op = "message"
  /\ lastEvent.frame.wellFormed
  /\ lastEvent.frame.value.type = "subscribed"
  /\ isConnected

\* C10: a frame that is not valid JSON, or that parses to a non-object such as null,
\* never makes the handler throw into its caller and leaves the connection and every
\* buffer as they were: the socket stays open and a later message is still dispatched.
Unparseable(frame) == ~frame.wellFormed \/ frame.value.kind # "object"
C10_BadFrameIsDropped ==
  /\ [][(Step("message") /\ Unparseable(lastEvent'.frame)) =>
          /\ ~uncaught'
          /\ invalidated' = {}
          /\ UNCHANGED <<conn, buffers>>]_vars
  /\ []((lastEvent.op = "message" /\ Unparseable(lastEvent.frame)
          /\ delivered < FrameLimit(feed)) => ENABLED Message)

C10_Witness ==
  /\ lastEvent.op = "message"
  /\ ~lastEvent.frame.wellFormed
  /\ caught
  /\ isConnected
  /\ signals # <<>>

\* The frame of a tracked_price_update carrying one token.
OneTokenFrame(sym, price) ==
  Text(JObject("tracked_price_update", PriceData(<<Token(sym, Some(price))>>)))
Priced == {Get(p) : p \in Prices \ {None}}

\* C11: a tracked_price_update for a symbol with price p replaces the symbol's entry
\* of the price map by the new token, and appends the point p at the end of the
\* symbol's price history, after every point received before; so after prices p1
\* then p2 the map carries p2 and the history has p1 before p2.
C11_LatestPriceAndHistoryInOrder ==
  [][\A sym \in Symbols, p \in Priced :
       (Step("message") /\ lastEvent'.frame = OneTokenFrame(sym, p)) =>
         /\ trackedPrices' = [trackedPrices EXCEPT ![toUpperCase(sym)] =
                                Some(Token(sym, Some(p)))]
         /\ priceHistory' = [priceHistory EXCEPT ![toUpperCase(sym)] =
                               priceHistory[toUpperCase(sym)]
                                 \o <<[t |-> delivered + 1, p |-> p]>>]]_vars

C11_Witness ==
  /\ lastEvent.op = "message"
  /\ lastEvent.frame = OneTokenFrame("BTC", 66000)
  /\ trackedPrices["BTC"] = Some(Token("BTC", Some(66000)))
  /\ priceHistory["BTC"] = <<[t |-> 1, p |-> 65000], [t |-> 2, p |-> 66000]>>

\* The buffer a flood of `type` fills, and the point the n-th frame of a flood of
\* price updates adds to the history of BTC.
BufferOf(type) ==
  CASE type = "new_signal" -> signals
    [] type = "MARKET_UPDATE" -> marketUpdates
    [] type = "tracked_transfer" -> trackedTransfers
    [] type = "channel_message" -> channelMessages
    [] OTHER -> priceHistory["BTC"]
PrependTypes == FloodTypes \ {"tracked_price_update"}
FloodPoint(n) == [t |-> n, p |-> n]

\* C12 as stated: the first element of every accumulating buffer, the price history
\* of a symbol included, is the entry received last.
C12_EveryBufferNewestFirst ==
  /\ \A type \in PrependTypes :
       (feed = type /\ BufferOf(type) # <<>>) =>
         BufferOf(type)[1] = FloodItem(type, delivered)
  /\ (feed = "tracked_price_update" /\ priceHistory["BTC"] # <<>>) =>
       priceHistory["BTC"][1] = FloodPoint(delivered)

\* C12, amended: the buffers of signals, market updates, transfers and channel
\* messages are newest-first, the price history of a symbol is oldest-first with the
\* point received last at its end, and in each of them an overflow removes the
\* oldest entry.
C12_NewestFirstButHistoryNewestLast ==
  /\ \A type \in PrependTypes :
       feed = type =>
         /\ Len(BufferOf(type)) = Min(pushed[type], Capacity(type))
         /\ \A i \in 1..Len(BufferOf(type)) :
              BufferOf(type)[i] = FloodItem(type, delivered - i + 1)
  /\ feed = "tracked_price_update" =>
       LET h == priceHistory["BTC"] IN
         /\ Len(h) = Min(delivered, MAX_PRICE_POINTS)
         /\ \A i \in 1..Len(h) : h[i] = FloodPoint(delivered - Len(h) + i)

C12_Witness ==
  /\ feed = "tracked_price_update"
  /\ delivered = MAX_PRICE_POINTS + 2
  /\ Len(priceHistory["BTC"]) = MAX_PRICE_POINTS
  /\ priceHistory["BTC"][1] = FloodPoint(3)
  /\ priceHistory["BTC"][MAX_PRICE_POINTS] = FloodPoint(MAX_PRICE_POINTS + 2)

\* C13: clear() empties the signals, market-updates and channel-messages buffers and
\* changes nothing else: socket, connected flag, retry counter and timers are
\* untouched, tracked transfers, tracked prices, price history, sentiment and
\* trending keep their values, and nothing is written or invalidated.
C13_ClearEmptiesThreeBuffersOnly ==
  [][Step("clear") =>
       /\ signals' = <<>>
       /\ marketUpdates' = <<>>
       /\ channelMessages' = <<>>
       /\ UNCHANGED <<sentiment, trending, trackedPrices, trackedTransfers, priceHistory>>
       /\ UNCHANGED conn
       /\ written' = None /\ invalidated' = {} /\ ~uncaught']_vars

C13_Witness ==
  /\ lastEvent.op = "clear"
  /\ signals = <<>> /\ marketUpdates = <<>> /\ channelMessages = <<>>
  /\ trackedTransfers = <<[id |-> 1]>>
  /\ trackedPrices["BTC"] = Some(Token("btc", Some(66000)))
  /\ priceHistory["BTC"] = <<[t |-> 2, p |-> 66000]>>
  /\ isConnected

LifecycleOps == {"open", "close", "error", "timer", "ping"}
Shrinks(buf, buf2) == Len(buf2) < Len(buf)

\* C14: open, close, error, reconnect-timer and heartbeat events leave every buffer
\* and snapshot unchanged, and a buffer of signals, market updates or channel
\* messages loses entries on an explicit clear only; so entries received before a
\* disconnect are still there after the reconnect.
C14_BuffersSurviveReconnect ==
  [][/\ (\E op \in LifecycleOps : Step(op)) => UNCHANGED buffers
     /\ (\/ Shrinks(signals, signals')
         \/ Shrinks(marketUpdates, marketUpdates')
         \/ Shrinks(channelMessages, channelMessages')) => Step("clear")
     /\ ~Shrinks(trackedTransfers, trackedTransfers')
     /\ \A k \in Keys : ~Shrinks(priceHistory[k], priceHistory'[k])]_vars

C14_Witness ==
  /\ lastEvent.op = "open"
  /\ readyState = <<"CLOSED", "OPEN">>
  /\ wsRef = 2
  /\ signals = <<[id |-> 1]>>

\* Reconnects scheduled since the last open event (since the start, if none).
ScheduledSinceOpen == Len(timeouts) - streakBase

\* C15: every open event sets the retry counter to zero and the connected flag to
\* true and starts a heartbeat of period 30 s; so the close events that follow an
\* open schedule a reconnect each until ten are scheduled, whatever the counter was
\* before the open, and only a close event after those ten gives up.
C15_OpenResetsRetryBudget ==
  /\ [][Step("open") =>
          /\ reconnectAttempts' = 0
          /\ isConnected'
          /\ intervals' = Append(intervals, [period |-> 30000, state |-> "active"])
          /\ pingInterval' = Len(intervals')]_vars
  /\ [](/\ ScheduledSinceOpen = Min(closeStreak, 10)
        /\ reconnectAttempts = ScheduledSinceOpen
        /\ gaveUp <=> closeStreak > 10)

C15_Witness ==
  /\ streakBase = 3
  /\ closeStreak = 10
  /\ ScheduledSinceOpen = 10
  /\ reconnectAttempts = 10
  /\ ~gaveUp

\* C16: connect() called while the current socket is open does nothing: no socket
\* is created, the current socket and its state stay, and the retry counter, the
\* timers, the heartbeat and the connected flag are as they were (a reconnect timer
\* that made the call is spent, nothing else).
C16_ConnectWhileOpenIsNoOp ==
  [][((Step("timer") \/ Step("mount")) /\ CurrentOpen) =>
       /\ UNCHANGED <<readyState, wsRef, reconnectAttempts, reconnectTimeout,
                      intervals, pingInterval, isConnected, buffers>>
       /\ Len(timeouts') = Len(timeouts)
       /\ \A t \in 1..Len(timeouts) :
            /\ timeouts'[t].delay = timeouts[t].delay
            /\ timeouts'[t].state # timeouts[t].state =>
                 timeouts[t].state = "pending" /\ timeouts'[t].state = "fired"
       /\ written' = None /\ ~caught' /\ ~uncaught']_vars

C16_Witness ==
  /\ lastEvent.op = "timer"
  /\ CurrentOpen
  /\ Cardinality(LiveSockets) = 1
  /\ PendingTimeouts = {}

Settled ==
  /\ PendingTimeouts = {}
  /\ \A s \in Sockets : readyState[s] = "CLOSED"
  /\ ~isConnected

\* C17: when every attempt ends in a close event without opening, at most 10
\* reconnects are ever scheduled, the sockets created are the one of each run of the
\* effect plus one per reconnect, and from some moment on the client is
\* disconnected for good: every socket closed and no timer pending.
C17_BoundedAttemptsThenDisconnected ==
  /\ [](/\ Len(timeouts) <= 10
        /\ Len(readyState) <= mounts + Len(timeouts))
  /\ <>[]Settled

C17_Witness ==
  /\ mounts = 1
  /\ Len(readyState) = 11
  /\ Len(timeouts) = 10
  /\ gaveUp
  /\ Settled

\* C18: a command is written only by the call that sends it, to the socket that is
\* current and open at that call; open events, close events, reconnect timers and
\* runs of the effect write nothing, so a command dropped while the socket was not
\* open is written by no later open or reconnect.
C18_DroppedCommandNeverSent ==
  [][/\ written' # None =>
          /\ \E op \in SendOps : Step(op) /\ Get(written').cmd.action = op
          /\ CurrentOpen
          /\ Get(written').sock = wsRef
     /\ (\E op \in {"open", "close", "timer", "mount"} : Step(op)) =>
          written' = None]_vars

C18_Witness ==
  /\ dropped
  /\ lastEvent.op = "open"
  /\ readyState = <<"CLOSED", "OPEN">>
  /\ CurrentOpen
  /\ written = None

\* The delay of the reconnect a close step has scheduled.
NewDelay == timeouts'[Len(timeouts')].delay

\* C19 as stated: a close event with the retry counter below the maximum schedules
\* the reconnect with delay min(base * attempt, 30 s), attempt being the counter's
\* value when the close event arrives, and then adds one to the counter.
C19_DelayFromCounterAtClose ==
  [][(Step("close") /\ reconnectAttempts < 10) =>
       /\ Len(timeouts') = Len(timeouts) + 1
       /\ NewDelay = Min(3000 * reconnectAttempts, 30000)
       /\ reconnectAttempts' = reconnectAttempts + 1]_vars

\* C19, amended: a close event with the retry counter below the maximum first adds
\* one to the counter and then schedules the reconnect with delay
\* min(base * attempt, 30 s), attempt being the counter's value after the increment.
C19_DelayFromIncrementedCounter ==
  [][(Step("close") /\ reconnectAttempts < 10) =>
       /\ Len(timeouts') = Len(timeouts) + 1
       /\ reconnectAttempts' = reconnectAttempts + 1
       /\ NewDelay = Min(3000 * reconnectAttempts', 30000)
       /\ timeouts'[Len(timeouts')].state = "pending"]_vars

C19_Witness ==
  /\ lastEvent.op = "close"
  /\ reconnectAttempts = 2
  /\ streakBase = 1
  /\ timeouts[2].delay = 3000
  /\ timeouts[3] = [delay |-> 6000, state |-> "pending"]

OpenSockets == {s \in Sockets : readyState[s] = "OPEN"}

\* C20: a heartbeat timer is active only while a connection is open, and at most
\* one heartbeat timer is active at any moment.
C20_HeartbeatOnlyWhileOpen ==
  /\ Cardinality(ActiveIntervals) <= 1
  /\ ActiveIntervals # {} => OpenSockets # {}

\* C21: when the page is served over https, the URL every socket is created with
\* has the wss scheme, whatever the explicit WebSocket URL, the API origin and the
\* host name are.
C21_SecurePageUsesWss ==
  \A s \in Sockets : env.protocol = "https:" => wsUrl(env).scheme = "wss"

\* The frame of a tracked_price_update carrying the batch b.
BatchFrame(b) == Text(JObject("tracked_price_update", PriceData(b)))
\* The tokens of the batch b stored under key k, in the order of the batch, and
\* those of them that carry a price.
TokensAt(b, k) == LET at(tok) == toUpperCase(tok.symbol) = k IN SelectSeq(b, at)
PricedAt(b, k) == LET priced(tok) == IsSome(tok.price_usd) IN SelectSeq(TokensAt(b, k), priced)
PointsAt(b, k, t) ==
  [i \in 1..Len(PricedAt(b, k)) |-> [t |-> t, p |-> Get(PricedAt(b, k)[i].price_usd)]]
HistoryLen == Len(priceHistory["BTC"]) + Len(priceHistory["ETH"])

\* C22 as stated: a tracked_price_update adds to the price history one point for
\* every token of its batch.
C22_OnePointPerToken ==
  [][\A b \in Batches :
       (Step("message") /\ lastEvent'.frame = BatchFrame(b)) =>
         HistoryLen' = HistoryLen + Len(b)]_vars

\* C22, amended: a tracked_price_update appends to the history of a symbol one point
\* for every token of its batch with that symbol and a price that is not null, in
\* the order of the batch, and no point for a token whose price is null; it upserts
\* every token, priced or not, so the map holds the last token of the batch for
\* each of its symbols.
C22_OnePointPerPricedToken ==
  [][\A b \in Batches :
       (Step("message") /\ lastEvent'.frame = BatchFrame(b)) =>
         \A k \in Keys :
           /\ priceHistory'[k] = priceHistory[k] \o PointsAt(b, k, delivered + 1)
           /\ trackedPrices'[k] =
                IF TokensAt(b, k) = <<>> THEN trackedPrices[k]
                ELSE Some(TokensAt(b, k)[Len(TokensAt(b, k))])]_vars

C22_Witness ==
  /\ lastEvent.op = "message"
  /\ lastEvent.frame = BatchFrame(<<Token("BTC", None), Token("ETH", Some(65000))>>)
  /\ delivered = 1
  /\ trackedPrices = [BTC |-> Some(Token("BTC", None)),
                      ETH |-> Some(Token("ETH", Some(65000)))]
  /\ priceHistory = [BTC |-> <<>>, ETH |-> <<[t |-> 1, p |-> 65000]>>]

SnapshotFrame(type, d) == Text(JObject(type, Some(d)))
MessageOfType(type) == Step("message") /\ lastEvent'.frame.value.type = type

\* C23: the sentiment snapshot is null until a sentiment_update arrives, a
\* sentiment_update replaces it by its payload and nothing else changes it, so it
\* is always the payload of the most recent sentiment_update; likewise the trending
\* snapshot and trending_update; neither message changes any other buffer.
C23_SnapshotsHoldLatestPayload ==
  /\ sentiment = None /\ trending = None
  /\ [][/\ \A d \in Sentiments :
            (Step("message") /\ lastEvent'.frame = SnapshotFrame("sentiment_update", d)) =>
              /\ sentiment' = Some(d)
              /\ UNCHANGED <<signals, marketUpdates, trending, trackedPrices,
                             trackedTransfers, priceHistory, channelMessages>>
        /\ \A d \in Trendings :
            (Step("message") /\ lastEvent'.frame = SnapshotFrame("trending_update", d)) =>
              /\ trending' = Some(d)
              /\ UNCHANGED <<signals, marketUpdates, sentiment, trackedPrices,
                             trackedTransfers, priceHistory, channelMessages>>
        /\ sentiment' # sentiment => MessageOfType("sentiment_update")
        /\ trending' # trending => MessageOfType("trending_update")]_vars

C23_Witness ==
  /\ lastEvent.op = "message"
  /\ lastEvent.frame = SnapshotFrame("trending_update", [top_tokens |-> <<"BTC">>])
  /\ trending = Some([top_tokens |-> <<"BTC">>])
  /\ sentiment = Some([overall |-> "BEARISH", score |-> 2])
  /\ delivered = 2

QuietTypes == {"notification", "monitoring_status", "pong", "error", "connected"}
QueryKeysOf(type) ==
  CASE type = "notification" -> {"notifications"}
    [] type = "monitoring_status" -> {"monitoringStatus", "userTelegramStatus"}
    [] OTHER -> {}

\* C24: a message of type notification, monitoring_status, pong, error or connected
\* changes no buffer, no snapshot and no connection state and writes nothing;
\* notification and monitoring_status invalidate their query keys, the other three
\* invalidate nothing.
C24_QuietTypesOnlyInvalidate ==
  [][\A type \in QuietTypes :
       MessageOfType(type) =>
         /\ UNCHANGED <<conn, buffers>>
         /\ invalidated' = QueryKeysOf(type)
         /\ written' = None /\ ~caught' /\ ~uncaught']_vars

C24_Witness ==
  /\ lastEvent.op = "message"
  /\ lastEvent.frame.value.type = "monitoring_status"
  /\ invalidated = {"monitoringStatus", "userTelegramStatus"}
  /\ trackedTransfers = <<[id |-> 1]>>
  /\ isConnected

\* The delay of the k-th reconnect scheduled since the last open event.
DelayAfterOpen(k) == timeouts[streakBase + k].delay

\* C25: the k-th consecutive reconnect after the last open event, k = 1..10, has
\* delay min(3000 * k, 30000) ms: 3000, 6000, ..., 27000, 30000; the first one is
\* never immediate.
C25_DelaysAfterOpen ==
  /\ ScheduledSinceOpen <= 10
  /\ \A k \in 1..ScheduledSinceOpen :
       /\ DelayAfterOpen(k) = Min(3000 * k, 30000)
       /\ DelayAfterOpen(k) > 0

C25_Witness ==
  /\ streakBase = 2
  /\ ScheduledSinceOpen = 10
  /\ [k \in 1..10 |-> DelayAfterOpen(k)] =
       <<3000, 6000, 9000, 12000, 15000, 18000, 21000, 24000, 27000, 30000>>

\* The close event of this step is that of a socket other than the current one.
StaleClose ==
  /\ Step("close")
  /\ \E s \in Sockets : s # wsRef /\ readyState[s] # "CLOSED" /\ readyState'[s] = "CLOSED"

\* C26: while the provider is mounted the connected flag is true exactly when the
\* current socket is open, and a close event of a socket that a newer one has
\* replaced neither changes the flag nor stops a heartbeat.
C26_FlagFollowsCurrentSocket ==
  /\ [](mounted => (isConnected <=> CurrentOpen))
  /\ [][StaleClose => /\ isConnected' = isConnected
                      /\ intervals' = intervals]_vars

\* C27: the retry counter is always between 0 and 10; a step that changes it is a
\* close event that finds it below 10 and adds one, or an open event that sets it
\* to 0.
C27_RetryCounterRange ==
  /\ [](reconnectAttempts \in 0..10)
  /\ [][reconnectAttempts' # reconnectAttempts =>
          \/ /\ Step("close")
             /\ reconnectAttempts < 10
             /\ reconnectAttempts' = reconnectAttempts + 1
          \/ /\ Step("open")
             /\ reconnectAttempts' = 0]_vars

C27_Witness ==
  /\ lastEvent.op = "close"
  /\ reconnectAttempts = 10
  /\ gaveUp
  /\ streakBase = 1
  /\ closeStreak = 11

\* The last step called connect() and the WebSocket constructor threw.
ConnectThrew == lastEvent.op \in {"mount", "timer"} /\ caught

\* C28: when the WebSocket constructor throws inside connect(), nothing escapes to
\* the caller, no socket is stored or wired, the retry counter, the heartbeat and the
\* connected flag are unchanged and no reconnect is scheduled; the client is then
\* disconnected with no timer pending, and no event is left that could reconnect it.
C28_ConstructorThrowIsSwallowed ==
  /\ [][((Step("mount") \/ Step("timer")) /\ caught') =>
          /\ ~uncaught'
          /\ UNCHANGED <<readyState, wsRef, reconnectAttempts, reconnectTimeout,
                         intervals, pingInterval, isConnected, buffers>>
          /\ Len(timeouts') = Len(timeouts)
          /\ written' = None]_vars
  /\ [](ConnectThrew =>
          /\ PendingTimeouts = {}
          /\ LiveSockets = {}
          /\ ~isConnected
          /\ ~ENABLED (Open \/ Close \/ Timer))

C28_Witness ==
  /\ lastEvent.op = "timer"
  /\ caught
  /\ readyState = <<"CLOSED", "CLOSED">>
  /\ reconnectAttempts = 1
  /\ streakBase = 1
  /\ PendingTimeouts = {}

\* The frames whose payload is absent.
EmptyFrames ==
  {Text(JObject(type, None)) :
     type \in {"tracked_transfer", "channel_message", "tracked_price_update"}}
    \cup {Text(JObject("tracked_price_update", Some([tokens |-> None])))}

\* C29: a tracked_transfer or channel_message without data, and a
\* tracked_price_update without data or without tokens, changes no buffer and
\* raises nothing; a token whose price is null is stored in the price map and adds
\* no point to the price history.
C29_AbsentPayloadIsIgnored ==
  [][/\ (Step("message") /\ lastEvent'.frame \in EmptyFrames) =>
          /\ UNCHANGED <<conn, buffers>>
          /\ invalidated' = {} /\ ~caught' /\ ~uncaught'
     /\ \A sym \in Symbols :
          (Step("message") /\ lastEvent'.frame = BatchFrame(<<Token(sym, None)>>)) =>
            /\ trackedPrices' = [trackedPrices EXCEPT ![toUpperCase(sym)] =
                                   Some(Token(sym, None))]
            /\ priceHistory' = priceHistory
            /\ ~caught' /\ ~uncaught']_vars

C29_Witness ==
  /\ lastEvent.op = "message"
  /\ lastEvent.frame = BatchFrame(<<Token("BTC", None)>>)
  /\ trackedPrices["BTC"] = Some(Token("BTC", None))
  /\ priceHistory["BTC"] = <<[t |-> 1, p |-> 65000]>>
  /\ delivered = 2

\* The key a symbol belongs under, whatever its letter case, and the places of the
\* batch b that belong under key k.
KeyOf(sym) == IF sym \in {"BTC", "btc", "Btc"} THEN "BTC" ELSE "ETH"
PlacesAt(b, k) == {i \in 1..Len(b) : KeyOf(b[i].symbol) = k}
PricedPlacesAt(b, k) == {i \in PlacesAt(b, k) : IsSome(b[i].price_usd)}

\* C30: the price map and the price-history map are keyed by the upper-cased
\* symbol: a token is stored under the upper-case key of its symbol whatever the
\* letter case it came in, its point goes to the history under that key, and the
\* entries and histories of the symbols that are not in the batch are unchanged.
C30_KeyedByUpperCasedSymbol ==
  [][\A b \in Batches :
       (Step("message") /\ lastEvent'.frame = BatchFrame(b)) =>
         \A k \in Keys :
           IF PlacesAt(b, k) = {}
           THEN /\ trackedPrices'[k] = trackedPrices[k]
                /\ priceHistory'[k] = priceHistory[k]
           ELSE /\ \E i \in PlacesAt(b, k) : trackedPrices'[k] = Some(b[i])
                /\ Len(priceHistory'[k]) =
                     Len(priceHistory[k]) + Cardinality(PricedPlacesAt(b, k))]_vars

C30_Witness ==
  /\ lastEvent.op = "message"
  /\ lastEvent.frame = BatchFrame(<<Token("btc", Some(66000))>>)
  /\ trackedPrices = [BTC |-> Some(Token("btc", Some(66000))),
                      ETH |-> Some(Token("ETH", Some(66000)))]
  /\ priceHistory = [BTC |-> <<[t |-> 1, p |-> 65000], [t |-> 2, p |-> 66000]>>,
                     ETH |-> <<[t |-> 1, p |-> 66000]>>]

====
